---- MODULE Spec2Model ----
(***************************************************************************)
(* Model of the action-item tracker: the record operations of              *)
(* src/src/data_structures.py, and the response parser and the reconciler  *)
(* of src/src/action_item_parser.py.                                       *)
(*                                                                         *)
(* Python strings are modelled as sequences of tokens.  A token is either  *)
(* a word (no tab, no quote, no leading or trailing blank) or one of the   *)
(* literal pieces the code's format strings are made of; TQ is the         *)
(* two-character piece  <tab>'  that the source puts around every value.   *)
(* Splitting and prefix tests are done on the token sequences exactly as   *)
(* str.split and str.startswith do them on the characters.                 *)
(*                                                                         *)
(* A Python value is a pair <<tag, payload>>: <<"str", tokens>>,           *)
(* <<"null", <<>>>> for None, <<"list", elements>> for a list.             *)
(* A dict with ordered keys (a decoded JSON object, an update mapping) is  *)
(* a sequence of <<key, value>> pairs with distinct keys; an action item   *)
(* is a function from its keys to their values.                            *)
(***************************************************************************)
EXTENDS Integers, Sequences, FiniteSets, TLC

\* ---------------------------------------------------------------- bounds
MaxCands == 2      \* candidates in one decoded response
MaxClock == 3      \* readings of the clock (creations and update calls)
MaxLen   == 5      \* tokens in a raw response text
MaxRunClock == 2   \* readings of the clock over a sequence of runs of main

\* ---------------------------------------------------------------- values
TQ == "<tab>'"

Str(toks) == <<"str", toks>>
None == <<"null", <<>>>>
PyList(elems) == <<"list", elems>>

\* str(value), as the f-strings of update_action_item apply it
Format(v) ==
  IF v[1] = "str" THEN v[2]
  ELSE IF v[1] = "null" THEN <<"None">>
  ELSE <<"[...]">>

IdKey == <<"id">>
ProjectKey == <<"project_id">>
TaskKey == <<"task">>
TaskTabKey == <<"task", "<tab>">>
OwnerKey == <<"owner">>
DeadlineKey == <<"deadline">>
StatusKey == <<"status">>
CreatedKey == <<"created_at">>
UpdatedKey == <<"updated_at">>
SourceKey == <<"source_meeting">>
HistoryKey == <<"update_history">>

ValidStatuses == {Str(<<"Open">>), Str(<<"In Progress">>), Str(<<"Completed">>), Str(<<"Cancelled">>)}

\* datetime.utcnow().isoformat() + "Z" at the n-th reading of the clock (two
\* readings are taken to differ), and the n-th uuid4 drawn (no two are taken
\* to be equal, and none equal to an id a reply makes up)
Stamp(n) == Str(<<"time", ToString(n)>>)
Uuid(n) == Str(<<"uuid", ToString(n)>>)

\* ------------------------------------------------------- ordered mappings
Has(d, k) == \E i \in 1..Len(d) : d[i][1] = k
Lookup(d, k) == d[CHOOSE i \in 1..Len(d) : d[i][1] = k][2]
\* dict.get(k) and dict.get(k, default)
GetOr(d, k, default) == IF Has(d, k) THEN Lookup(d, k) ELSE default
Get(d, k) == GetOr(d, k, None)
Keys(d) == {d[i][1] : i \in 1..Len(d)}

\* --------------------------------------------------------------- strings
\* s[a..b] as a sequence (empty when b < a)
Slice(s, a, b) == [i \in 1..(b - a + 1) |-> s[a + i - 1]]

OccursAt(s, sep, i) ==
  /\ i >= 1
  /\ i + Len(sep) - 1 <= Len(s)
  /\ \A j \in 1..Len(sep) : s[i + j - 1] = sep[j]

\* str.startswith
StartsWith(s, prefix) == OccursAt(s, prefix, 1)

\* position of the first occurrence of sep in s at or after from, 0 if none
FindFrom(s, sep, from) ==
  LET hits == {i \in from..Len(s) : OccursAt(s, sep, i)}
  IN IF hits = {} THEN 0 ELSE CHOOSE i \in hits : \A j \in hits : i <= j

\* len(s.split(sep)) > 1
SplitsInTwo(s, sep) == FindFrom(s, sep, 1) # 0

\* s.split(sep)[1], defined when sep occurs in s
SplitSecond(s, sep) ==
  LET a == FindFrom(s, sep, 1) + Len(sep)
      b == FindFrom(s, sep, a)
  IN IF b = 0 THEN Slice(s, a, Len(s)) ELSE Slice(s, a, b - 1)

\* s.split(sep)[0]
SplitFirst(s, sep) ==
  LET a == FindFrom(s, sep, 1)
  IN IF a = 0 THEN s ELSE Slice(s, 1, a - 1)

\* "; ".join(parts)
RECURSIVE Join(_)
Join(parts) ==
  IF Len(parts) = 0 THEN <<>>
  ELSE IF Len(parts) = 1 THEN parts[1]
  ELSE parts[1] \o <<"; ">> \o Join(Tail(parts))

\* ----------------------------------------------------- data_structures.py
CreateActionItem(project_id, task, owner, deadline, status, source_meeting, now, uuid) ==
  (IdKey :> Uuid(uuid)) @@ (ProjectKey :> project_id) @@ (TaskKey :> task)
  @@ (OwnerKey :> owner) @@ (DeadlineKey :> deadline) @@ (StatusKey :> status)
  @@ (CreatedKey :> Stamp(now)) @@ (UpdatedKey :> Stamp(now))
  @@ (SourceKey :> source_meeting) @@ (HistoryKey :> PyList(<<>>))

\* item[key] = value, adding the key when it is new
SetField(item, key, value) == (key :> value) @@ item

ChangedText(key, old, new) ==
  <<"Changed ", TQ>> \o key \o <<TQ, " from ", TQ>> \o Format(old)
  \o <<TQ, " to", " ", TQ>> \o Format(new) \o <<TQ>>

AddedText(key, new) ==
  <<"Added ", TQ>> \o key \o <<TQ, " with value ", TQ>> \o Format(new) \o <<TQ>>

\* the loop over updates.items(): the item and the change log after it
RECURSIVE ApplyUpdates(_, _, _)
ApplyUpdates(item, change_log, updates) ==
  IF Len(updates) = 0 THEN [item |-> item, change_log |-> change_log]
  ELSE
    LET key == updates[1][1]
        value == updates[1][2]
    IN IF key \in DOMAIN item /\ item[key] # value
       THEN ApplyUpdates(SetField(item, key, value),
                         Append(change_log, ChangedText(key, item[key], value)),
                         Tail(updates))
       ELSE IF key \notin DOMAIN item
       THEN ApplyUpdates(SetField(item, key, value),
                         Append(change_log, AddedText(key, value)),
                         Tail(updates))
       ELSE ApplyUpdates(item, change_log, Tail(updates))

HistoryEntry(now, change_log) == [timestamp |-> Stamp(now), changes |-> Join(change_log)]

RecordChangesAlways(item, change_log, now) ==
  LET stamped == SetField(item, UpdatedKey, Stamp(now))
      history == IF HistoryKey \notin DOMAIN stamped \/ stamped[HistoryKey][1] # "list"
                 THEN <<>>
                 ELSE stamped[HistoryKey][2]
  IN SetField(stamped, HistoryKey, PyList(Append(history, HistoryEntry(now, change_log))))

\* the block under "if change_log:"
RecordChanges(item, change_log, now) ==
  IF Len(change_log) = 0 THEN item
  ELSE
    LET stamped == SetField(item, UpdatedKey, Stamp(now))
        history == IF HistoryKey \notin DOMAIN stamped \/ stamped[HistoryKey][1] # "list"
                   THEN <<>>
                   ELSE stamped[HistoryKey][2]
    IN SetField(stamped, HistoryKey, PyList(Append(history, HistoryEntry(now, change_log))))

StatusChangePrefix == <<"Changed ", TQ, "status", TQ>>
FromSep == <<" from ", TQ>>
ToSep == <<TQ, " to">>

\* the loop "for change in reversed(change_log)": the status recovered from the
\* last entry of the log that starts like a status change and splits in two
RECURSIVE OriginalStatus(_, _)
OriginalStatus(change_log, current) ==
  IF Len(change_log) = 0 THEN current
  ELSE
    LET change == change_log[Len(change_log)]
    IN IF StartsWith(change, StatusChangePrefix) /\ SplitsInTwo(change, FromSep)
       THEN Str(SplitFirst(SplitSecond(change, FromSep), ToSep))
       ELSE OriginalStatus(Slice(change_log, 1, Len(change_log) - 1), current)

\* the block under "Ensure status is valid if updated"
RevertInvalidStatus(item, updates, change_log) ==
  IF Has(updates, StatusKey) /\ Lookup(updates, StatusKey) \notin ValidStatuses
  THEN SetField(item, StatusKey,
                OriginalStatus(change_log,
                               IF StatusKey \in DOMAIN item THEN item[StatusKey] ELSE None))
  ELSE item

update_action_item(item, updates, now) ==
  LET applied == ApplyUpdates(item, <<>>, updates)
  IN RevertInvalidStatus(RecordChanges(applied.item, applied.change_log, now),
                         updates, applied.change_log)

\* ----------------------------------------- action_item_parser.py: parser
\* A raw reply is a sequence of these tokens: the four brackets, the comma,
\* "m" for one member of an object ("key": "text") and "x" for a run of prose
\* that is not JSON.  Blanks between tokens are not modelled: json.loads
\* skips them.
RawTokens == {"[", "]", "{", "}", ",", "m", "x"}

\* str.find and str.rfind of a one-character pattern: a position, 0 for -1
Find(s, ch) ==
  LET hits == {i \in 1..Len(s) : s[i] = ch}
  IN IF hits = {} THEN 0 ELSE CHOOSE i \in hits : \A j \in hits : i <= j

RFind(s, ch) ==
  LET hits == {i \in 1..Len(s) : s[i] = ch}
  IN IF hits = {} THEN 0 ELSE CHOOSE i \in hits : \A j \in hits : j <= i

\* json.loads on the token sequence: one value, an array of values or an
\* object of members, and nothing after it.  A decoded array is
\* <<"list", elements>>, a decoded object <<"dict", members>>; a result with
\* ok = FALSE stands for JSONDecodeError.
DecodeFail == [ok |-> FALSE, next |-> 0, val |-> None]

RECURSIVE DecodeValue(_, _), DecodeElements(_, _, _), DecodeMembers(_, _, _)

\* the members of an object after position i - 1; expect is "member" or "sep"
DecodeMembers(s, i, acc) ==
  IF i > Len(s) \/ s[i] # "m" THEN DecodeFail
  ELSE IF i + 1 > Len(s) THEN DecodeFail
  ELSE IF s[i + 1] = "}" THEN [ok |-> TRUE, next |-> i + 2, val |-> <<"dict", Append(acc, "m")>>]
  ELSE IF s[i + 1] = "," THEN DecodeMembers(s, i + 2, Append(acc, "m"))
  ELSE DecodeFail

\* the elements of an array from position i on
DecodeElements(s, i, acc) ==
  LET v == DecodeValue(s, i)
  IN IF ~v.ok \/ v.next > Len(s) THEN DecodeFail
     ELSE IF s[v.next] = "]"
     THEN [ok |-> TRUE, next |-> v.next + 1, val |-> PyList(Append(acc, v.val))]
     ELSE IF s[v.next] = "," THEN DecodeElements(s, v.next + 1, Append(acc, v.val))
     ELSE DecodeFail

DecodeValue(s, i) ==
  IF i > Len(s) THEN DecodeFail
  ELSE IF s[i] = "["
  THEN IF i + 1 <= Len(s) /\ s[i + 1] = "]"
       THEN [ok |-> TRUE, next |-> i + 2, val |-> PyList(<<>>)]
       ELSE DecodeElements(s, i + 1, <<>>)
  ELSE IF s[i] = "{"
  THEN IF i + 1 <= Len(s) /\ s[i + 1] = "}"
       THEN [ok |-> TRUE, next |-> i + 2, val |-> <<"dict", <<>>>>]
       ELSE DecodeMembers(s, i + 1, <<>>)
  ELSE DecodeFail

JsonLoads(s) ==
  LET v == DecodeValue(s, 1)
  IN IF v.ok /\ v.next = Len(s) + 1 THEN v ELSE DecodeFail

\* the branch taken when no well-ordered pair of square brackets is found
ParseSingleObject(response_content) ==
  LET json_start_obj == Find(response_content, "{")
      json_end_obj == RFind(response_content, "}")
  IN IF json_start_obj # 0 /\ json_end_obj # 0 /\ json_end_obj > json_start_obj
     THEN LET parsed_obj == JsonLoads(Slice(response_content, json_start_obj, json_end_obj))
          IN IF parsed_obj.ok /\ parsed_obj.val[1] = "dict"
             THEN PyList(<<parsed_obj.val>>)
             ELSE None
     ELSE None

parse_llm_json_response(response_content) ==
  IF Len(response_content) = 0 THEN None
  ELSE
    LET json_start == Find(response_content, "[")
        json_end == RFind(response_content, "]")
    IN IF json_start = 0 \/ json_end = 0 \/ json_end < json_start
       THEN ParseSingleObject(response_content)
       ELSE LET parsed_data == JsonLoads(Slice(response_content, json_start, json_end))
            IN IF parsed_data.ok /\ parsed_data.val[1] = "list"
               THEN parsed_data.val
               ELSE None

\* -------------------------------------- action_item_parser.py: reconciler
ExcludedKeysNoProject == {IdKey, CreatedKey, HistoryKey}
ExcludedKeysNoHistory == {IdKey, ProjectKey, CreatedKey}
ExcludedKeys == {IdKey, ProjectKey, CreatedKey, HistoryKey}

\* {k: v for k, v in llm_item.items() if k not in [...]}
UpdatesOf(llm_item) ==
  LET Kept(pair) == pair[1] \notin ExcludedKeys
  IN SelectSeq(llm_item, Kept)

\* truth value of a str or None, as in "if item_id and ..."
Truthy(v) == v # None /\ v # Str(<<>>)

\* existing_items_map: the position of the item a given id maps to, 0 if none
\* (a dict comprehension keeps the last item of each id)
MapIndex(existing_items, id) ==
  LET hits == {i \in 1..Len(existing_items) : existing_items[i][IdKey] = id}
  IN IF hits = {} THEN 0 ELSE CHOOSE i \in hits : \A j \in hits : j <= i

NewStatusUnchecked(llm_item) == GetOr(llm_item, StatusKey, Str(<<"Open">>))

\* status of a new item: llm_item.get("status", "Open"), then the validation
NewStatus(llm_item) ==
  IF Has(llm_item, StatusKey) /\ Lookup(llm_item, StatusKey) \notin ValidStatuses
  THEN Str(<<"Open">>)
  ELSE GetOr(llm_item, StatusKey, Str(<<"Open">>))

\* llm_item.get(<tab>'task<tab>')[:50] raises TypeError when the key
\* 'task<tab>' is absent (None is not subscriptable)
PrintRaises(llm_item) == Get(llm_item, TaskTabKey)[1] = "null"

NewItemKeepsId(project_id, llm_item, now, uuid) ==
  SetField(
    SetField(
      CreateActionItem(project_id, Lookup(llm_item, TaskKey),
                       Get(llm_item, OwnerKey), Get(llm_item, DeadlineKey),
                       GetOr(llm_item, StatusKey, Str(<<"Open">>)),
                       Str(<<"LLM Extraction">>), now, uuid),
      StatusKey, NewStatus(llm_item)),
    IdKey, GetOr(llm_item, IdKey, Uuid(uuid)))

\* the new item of the creating branch: create_action_item(...), then the
\* validation of the status the candidate gave
NewItem(project_id, llm_item, now, uuid) ==
  SetField(
    CreateActionItem(project_id, Lookup(llm_item, TaskKey),
                     Get(llm_item, OwnerKey), Get(llm_item, DeadlineKey),
                     GetOr(llm_item, StatusKey, Str(<<"Open">>)),
                     Str(<<"LLM Extraction">>), now, uuid),
    StatusKey, NewStatus(llm_item))

\* one pass of the loop body of process_parsed_items.  st carries the
\* existing items (updated in place), the newly created items, the clock,
\* the number of uuids drawn, the update_action_item calls made and whether
\* an exception left the loop.
ProcessCandidate(st, project_id, llm_item, existing_items) ==
  LET item_id == Get(llm_item, IdKey)
      idx == MapIndex(existing_items, item_id)
      now == st.clock + 1
  IN IF Truthy(item_id) /\ idx # 0
     THEN LET before == st.existing[idx]
              updates == UpdatesOf(llm_item)
              after == update_action_item(before, updates, now)
          IN [st EXCEPT !.existing[idx] = after,
                        !.clock = now,
                        !.calls = Append(@, [index |-> idx, before |-> before,
                                             updates |-> updates, after |-> after,
                                             now |-> now])]
     ELSE IF Has(llm_item, TaskKey)
     THEN IF PrintRaises(llm_item)
          THEN [st EXCEPT !.raised = TRUE]
          ELSE LET new_item == NewItem(project_id, llm_item, now, st.uuids + 1)
               IN [st EXCEPT !.created = Append(@, new_item),
                             !.sources = Append(@, llm_item),
                             !.clock = now,
                             !.uuids = @ + 1]
     ELSE st

RECURSIVE ProcessLoop(_, _, _, _)
ProcessLoop(st, project_id, parsed_items, existing_items) ==
  IF st.raised \/ Len(parsed_items) = 0 THEN st
  ELSE ProcessLoop(ProcessCandidate(st, project_id, parsed_items[1], existing_items),
                   project_id, Tail(parsed_items), existing_items)

process_parsed_items(project_id, parsed_items, existing_items, clock0, uuids0) ==
  ProcessLoop([existing |-> existing_items, created |-> <<>>, sources |-> <<>>,
               clock |-> clock0, uuids |-> uuids0, calls |-> <<>>, raised |-> FALSE],
              project_id, parsed_items, existing_items)

FinalItemListNewFirst(st) == st.created \o st.existing

\* final_item_list: the existing items, then the newly created ones
FinalItemList(st) == st.existing \o st.created

\* ------------------------------------------------------------------ inputs
\* A key an LLM reply may carry: JSON allows any string as a key.  This one
\* reads like the middle of a change description.
SpoofKey == <<"status", TQ, " from ", TQ, "Bogus", TQ, " to">>

ProjectIds == {Str(<<"alpha">>)}
ForeignId == Str(<<"xyz-123">>)

Task(toks) == <<TaskKey, Str(toks)>>
TaskTab == <<TaskTabKey, Str(<<"x">>)>>
Status(word) == <<StatusKey, Str(<<word>>)>>
Owner(word) == <<OwnerKey, Str(<<word>>)>>
Spoof(word) == <<SpoofKey, Str(<<word>>)>>

\* replies about a new item: nothing usable, a task, a task with the key
\* 'task<tab>' beside it, an empty task, a task with a status
NewBodies ==
  { <<>>,
    << Task(<<"Write report">>) >>,
    << Task(<<"Write report">>), TaskTab >>,
    << Task(<<>>), TaskTab >>,
    << Task(<<"Write report">>), TaskTab, Status("Done") >>,
    << Task(<<"Write report">>), TaskTab, Status("Completed"), Owner("Bob"),
       <<DeadlineKey, Str(<<"next Friday">>)>> >> }

\* replies about an item the prompt showed, to follow its id
UpdateBodies ==
  { << Task(<<"Write report">>), TaskTab >>,
    << Status("Done") >>,
    << Status("Completed"), Owner("Bob") >>,
    << Status("Done"), Owner("Bob") >>,
    << Spoof("a") >>,
    << Status("Done"), Spoof("b") >>,
    << <<ProjectKey, Str(<<"beta">>)>>, <<CreatedKey, Str(<<"never">>)>>,
       <<HistoryKey, PyList(<<>>)>>, Owner("Bob") >>,
    << <<UpdatedKey, Str(<<"never">>)>> >> }

\* the candidates a reply may hold, given the items the prompt showed
Candidates(existing_items) ==
  NewBodies
  \cup { << <<IdKey, ForeignId>>, Task(<<"Write report">>), TaskTab >> }
  \cup { << <<IdKey, existing_items[i][IdKey]>> >> \o body :
           i \in 1..Len(existing_items), body \in UpdateBodies }

CandidateLists(existing_items) ==
  UNION { [1..n -> Candidates(existing_items)] : n \in 0..MaxCands }

\* ------------------------------------------------------- memory_manager.py
\* A project identifier is a string of these pieces; "." and "/" stand for
\* the characters that are neither alphanumeric nor '_' nor '-'.
IsSafeChar(c) == c \notin {".", "/"}

SafeProjectId(project_id) == SelectSeq(project_id[2], IsSafeChar)

GetProjectFilePathShared(project_id) == <<"project_data", "/", "default_project", ".json">>

\* get_project_file_path: ACTION_ITEM_DIR joined with the sanitized name
get_project_file_path(project_id) ==
  LET safe_project_id == IF SafeProjectId(project_id) = <<>>
                         THEN <<"default_project">>
                         ELSE SafeProjectId(project_id)
  IN <<"project_data", "/">> \o safe_project_id \o <<".json">>

\* A persisted document: no file, a file json.load rejects, a file that
\* decodes to something other than a list, or a file holding a list.  For
\* the values an item holds (strings, null, lists, objects) json.dump followed
\* by json.load gives back equal data, so a list document holds the items.
Missing == [kind |-> "missing", data |-> <<>>]
Undecodable == [kind |-> "undecodable", data |-> <<>>]
NotAList == [kind |-> "not a list", data |-> <<>>]
ListDoc(action_items) == [kind |-> "list", data |-> action_items]

\* load_action_items on the document at the project's path; readable = FALSE
\* stands for an IOError while opening or reading the file
load_action_items(doc, readable) ==
  IF doc.kind = "missing" THEN <<>>
  ELSE IF ~readable THEN <<>>
  ELSE IF doc.kind = "list" THEN doc.data
  ELSE <<>>

\* save_action_items: the document left behind and the value returned.
\* "saved" is the normal return; "refused" an OSError from makedirs or an
\* IOError from open, the file untouched; "cut short" an IOError after
\* open(file_path, 'w') has truncated the file.
SaveOutcomes == {"saved", "refused", "cut short"}

save_action_items(doc, action_items, outcome) ==
  IF outcome = "saved" THEN [doc |-> ListDoc(action_items), ok |-> TRUE]
  ELSE IF outcome = "refused" THEN [doc |-> doc, ok |-> FALSE]
  ELSE [doc |-> Undecodable, ok |-> FALSE]

\* ------------------------------------------------------ llm_interaction.py
\* As it stands the module does not compile: in line 41 the triple quotes end
\* the f-string, so the import in main_agent_loop.py fails.  The functions
\* below are modelled from their own text, which is well-formed.
\* str.strip on a reply: blanks (" ") at both ends are dropped
RECURSIVE LStrip(_)
LStrip(s) == IF s # <<>> /\ Head(s) = " " THEN LStrip(Tail(s)) ELSE s

RECURSIVE RStrip(_)
RStrip(s) == IF s # <<>> /\ s[Len(s)] = " " THEN RStrip(SubSeq(s, 1, Len(s) - 1)) ELSE s

Strip(s) == RStrip(LStrip(s))

\* generate_llm_response: the stripped content of the first choice, or None
\* when completion raised or the reply carries no content.  completion is
\* ok = FALSE for an exception, else [ok |-> TRUE, content |-> text].
NoResponse == <<"none">>

generate_llm_response(completion) ==
  IF completion.ok /\ completion.content # <<>>
  THEN Strip(completion.content)
  ELSE NoResponse

\* "if llm_response_content:" -- neither None nor the empty string
HasContent(llm_response_content) ==
  llm_response_content # NoResponse /\ llm_response_content # <<>>

\* ------------------------------------------------------- main_agent_loop.py
ShortCircuitNever(meeting_notes, force_reparse) == FALSE

\* "if not meeting_notes and not args.force_reparse"
ShortCircuit(meeting_notes, force_reparse) == meeting_notes = <<>> /\ ~force_reparse

AfterParseAlwaysSaves(parsed_llm_items) ==
  IF parsed_llm_items # None THEN "process" ELSE "save"

\* "if parsed_llm_items is not None": on to the merge, else to the summary
AfterParse(parsed_llm_items) ==
  IF parsed_llm_items # None THEN "process" ELSE "summary"

\* the summary branch asks the LLM when the list in memory is not empty
SummaryCalls(should_summarize, all_action_items) ==
  should_summarize /\ all_action_items # <<>>

\* the candidate each decoded element stands for: the k-th object of the
\* reply carries the k-th body
ElementsAreObjects(parsed_llm_items) ==
  \A k \in 1..Len(parsed_llm_items[2]) : parsed_llm_items[2][k][1] = "dict"

CandidatesOf(parsed_llm_items, bodies) ==
  [k \in 1..Len(parsed_llm_items[2]) |-> bodies[k]]

\* ------------------------------------------------------------------- state
VARIABLES
  items,      \* the caller's list of action items
  clock,      \* number of clock readings so far
  uuids,      \* number of uuids drawn so far
  last,       \* the last process_parsed_items call: its inputs and what it did
  response,   \* the raw text of the LLM's reply
  parsed,     \* what parse_llm_json_response made of it, once it has run
  store,      \* the persisted document at each path
  pc,         \* where the current run of main stands
  run         \* the current run: its arguments and what it has done so far

vars == <<items, clock, uuids, last, response, parsed, store, pc, run>>

NotParsed == [done |-> FALSE, result |-> None]

NoCall == [project_id |-> None, parsed_items |-> <<>>, existing |-> <<>>,
           created |-> <<>>, sources |-> <<>>, calls |-> <<>>,
           raised |-> FALSE, called |-> FALSE]

\* "a" and "a." sanitize to the same name, "." to the empty string
RunProjectIds == {Str(<<"a">>), Str(<<"a", ".">>), Str(<<".">>)}

Paths == {get_project_file_path(p) : p \in RunProjectIds}

NoRun == [project_id |-> None, is_file |-> FALSE, meeting_notes |-> <<>>,
          force_reparse |-> FALSE, should_summarize |-> FALSE,
          before |-> [f \in Paths |-> Missing], loaded |-> <<>>, readable |-> TRUE,
          bodies |-> <<>>, llm_calls |-> <<>>, saves |-> <<>>]

Init ==
  /\ store = [f \in Paths |-> Missing]
  /\ pc = "idle"
  /\ run = NoRun
  /\ items = <<>>
  /\ clock = 0
  /\ uuids = 0
  /\ last = NoCall
  /\ response = <<>>
  /\ parsed = NotParsed

\* all_action_items = process_parsed_items(project_id, parsed_items, all_action_items).
\* When the call raises, nothing is returned and the caller's list keeps the
\* updates made in place before the exception.
ProcessParsedItems ==
  /\ clock < MaxClock
  /\ \E project_id \in ProjectIds, parsed_items \in CandidateLists(items) :
       \E st \in {process_parsed_items(project_id, parsed_items, items, clock, uuids)} :
         /\ items' = IF st.raised THEN st.existing ELSE FinalItemList(st)
         /\ clock' = st.clock
         /\ uuids' = st.uuids
         /\ last' = [project_id |-> project_id, parsed_items |-> parsed_items,
                     existing |-> items, created |-> st.created, sources |-> st.sources,
                     calls |-> st.calls, raised |-> st.raised, called |-> TRUE]
  /\ UNCHANGED <<response, parsed, store, pc, run>>

Next == ProcessParsedItems

Spec == Init /\ [][Next]_vars

\* the parser alone, on every raw reply of at most MaxLen tokens
RawTexts == UNION { [1..n -> RawTokens] : n \in 0..MaxLen }

InitParser ==
  /\ store = [f \in Paths |-> Missing]
  /\ pc = "idle"
  /\ run = NoRun
  /\ items = <<>>
  /\ clock = 0
  /\ uuids = 0
  /\ last = NoCall
  /\ response \in RawTexts
  /\ parsed = NotParsed

ParseLlmJsonResponse ==
  /\ ~parsed.done
  /\ parsed' = [done |-> TRUE, result |-> parse_llm_json_response(response)]
  /\ UNCHANGED <<items, clock, uuids, last, response, store, pc, run>>

NextParser == ParseLlmJsonResponse

SpecParser == InitParser /\ [][NextParser]_vars

\* ------------------------------------------------------- claim vocabulary
IsPrefix(s, t) == Len(s) <= Len(t) /\ \A i \in 1..Len(s) : s[i] = t[i]
Contains(s, part) == \E i \in 1..Len(s) : OccursAt(s, part, i)
History(item) == item[HistoryKey][2]

\* an update_action_item call of the last merge whose mapping carries an invalid status
InvalidStatusCall(c) ==
  Has(c.updates, StatusKey) /\ Lookup(c.updates, StatusKey) \notin ValidStatuses

\* the keys of the call's mapping whose value differs from the item's, or is new to it
DifferingKeys(c) ==
  {k \in Keys(c.updates) : k \notin DOMAIN c.before \/ c.before[k] # Lookup(c.updates, k)}

\* the change description update_action_item writes for key k in this call
DescriptionOf(c, k) ==
  IF k \in DOMAIN c.before
  THEN ChangedText(k, c.before[k], Lookup(c.updates, k))
  ELSE AddedText(k, Lookup(c.updates, k))

AppendedOne(c) ==
  /\ Len(History(c.after)) = Len(History(c.before)) + 1
  /\ IsPrefix(History(c.before), History(c.after))

LastEntry(c) == History(c.after)[Len(History(c.after))]

\* the candidate names an item of the list the call was given
Matches(llm_item) ==
  /\ Truthy(Get(llm_item, IdKey))
  /\ MapIndex(last.existing, Get(llm_item, IdKey)) # 0

Calls == {last.calls[i] : i \in 1..Len(last.calls)}

\* C1: whenever update_action_item is given a mapping with an invalid status,
\* the item's status after the call is the status it had before the call,
\* whatever else the mapping carries.
C1_InvalidStatusKeepsPrior ==
  \A c \in Calls : InvalidStatusCall(c) => c.after[StatusKey] = c.before[StatusKey]

\* C2: a call with an invalid status appends no description of a status change;
\* every other differing key is assigned and described in the one entry the
\* call appends; and with no other differing key the call appends no entry.
C2_RejectedStatusNotLogged ==
  \A c \in Calls :
    InvalidStatusCall(c) =>
      LET others == DifferingKeys(c) \ {StatusKey}
      IN IF others = {}
         THEN History(c.after) = History(c.before)
         ELSE /\ AppendedOne(c)
              /\ ~Contains(LastEntry(c).changes, DescriptionOf(c, StatusKey))
              /\ \A k \in others :
                   /\ c.after[k] = Lookup(c.updates, k)
                   /\ Contains(LastEntry(c).changes, DescriptionOf(c, k))

\* C3: a candidate whose id names an existing item adds no item: the list grows
\* by exactly the candidates that name no existing item and carry a task, and
\* every existing item keeps its id, project_id and created_at.
C3_MatchedCandidateUpdatesInPlace ==
  last.called =>
    /\ Len(items) >= Len(last.existing)
    /\ Len(items) - Len(last.existing) <=
         Cardinality({j \in 1..Len(last.parsed_items) :
                        ~Matches(last.parsed_items[j]) /\ Has(last.parsed_items[j], TaskKey)})
    /\ ~last.raised =>
         Len(items) - Len(last.existing) =
           Cardinality({j \in 1..Len(last.parsed_items) :
                          ~Matches(last.parsed_items[j]) /\ Has(last.parsed_items[j], TaskKey)})
    /\ \A i \in 1..Len(last.existing) :
         /\ items[i][IdKey] = last.existing[i][IdKey]
         /\ items[i][ProjectKey] = last.existing[i][ProjectKey]
         /\ items[i][CreatedKey] = last.existing[i][CreatedKey]

\* a merge in which a candidate naming an existing item, carrying project_id and
\* created_at and a task-less update, changed that item
C3_Witness ==
  /\ last.called /\ ~last.raised
  /\ \E j \in 1..Len(last.parsed_items) :
       LET c == last.parsed_items[j]
       IN /\ Matches(c) /\ Has(c, ProjectKey) /\ Has(c, CreatedKey)
          /\ LET i == MapIndex(last.existing, Get(c, IdKey))
             IN /\ items[i][ProjectKey] # Lookup(c, ProjectKey)
                /\ items[i][OwnerKey] # last.existing[i][OwnerKey]
  /\ \E j \in 1..Len(last.parsed_items) :
       Matches(last.parsed_items[j]) /\ Has(last.parsed_items[j], TaskKey)

\* the list without its j-th element
Without(seq, j) == [i \in 1..(Len(seq) - 1) |-> IF i < j THEN seq[i] ELSE seq[i + 1]]

\* what the last call would have done without its j-th candidate
LastWithout(j) ==
  process_parsed_items(last.project_id, Without(last.parsed_items, j), last.existing, 0, 0)

\* the candidate names no existing item and its task is missing or empty
Taskless(llm_item) ==
  /\ ~Matches(llm_item)
  /\ ~Has(llm_item, TaskKey) \/ Lookup(llm_item, TaskKey) = Str(<<>>)

\* C4: a candidate that names no existing item and has a missing or empty task
\* creates nothing: the call returns, as it would without that candidate, a
\* list of the same length, and the other candidates are processed.
C4_TasklessCandidateDropped ==
  last.called =>
    \A j \in 1..Len(last.parsed_items) :
      Taskless(last.parsed_items[j]) =>
        /\ last.raised = LastWithout(j).raised
        /\ Len(last.created) = Len(LastWithout(j).created)
        /\ Len(last.calls) = Len(LastWithout(j).calls)

\* applying the call's mapping once more changes neither updated_at nor the history
RepeatIsNoOp(c) ==
  LET again == update_action_item(c.after, c.updates, c.now + 1)
  IN again[UpdatedKey] = c.after[UpdatedKey] /\ again[HistoryKey] = c.after[HistoryKey]

\* the call stamps updated_at and appends exactly one entry when some key of
\* its mapping differs from the item or is new to it, and leaves both alone
\* otherwise
LogsIffDiffers(c) ==
  IF DifferingKeys(c) # {}
  THEN /\ c.after[UpdatedKey] = Stamp(c.now)
       /\ AppendedOne(c)
       /\ LastEntry(c).timestamp = Stamp(c.now)
  ELSE /\ c.after[UpdatedKey] = c.before[UpdatedKey]
       /\ c.after[HistoryKey] = c.before[HistoryKey]

Repeatable(c) == ~InvalidStatusCall(c) /\ ~Has(c.updates, UpdatedKey)

OtherFieldDiffers(before, after) ==
  \E k \in (DOMAIN before \cup DOMAIN after) \ {UpdatedKey, HistoryKey} :
    k \notin DOMAIN before \/ k \notin DOMAIN after \/ before[k] # after[k]

C6_BumpOnlyOnFieldChange ==
  \A i \in 1..Len(last.existing) :
    (items[i][UpdatedKey] # last.existing[i][UpdatedKey]
       \/ items[i][HistoryKey] # last.existing[i][HistoryKey])
    => OtherFieldDiffers(last.existing[i], items[i])

\* C7: from the empty store, every item of the list has one of the four statuses.
C7_StatusAlwaysValid ==
  \A i \in 1..Len(items) : items[i][StatusKey] \in ValidStatuses

\* C8: no two items share an id, no item's id changes, and an item created for
\* a candidate gets an id that is new to the list and is not the candidate's.
C8_IdsUniqueAndFixed ==
  /\ \A i, j \in 1..Len(items) : items[i][IdKey] = items[j][IdKey] => i = j
  /\ \A i \in 1..Len(last.existing) : items[i][IdKey] = last.existing[i][IdKey]
  /\ \A j \in 1..Len(last.created) :
       /\ last.created[j][IdKey] # Get(last.sources[j], IdKey)
       /\ \A i \in 1..Len(last.existing) : last.created[j][IdKey] # last.existing[i][IdKey]

\* a merge that created an item for a candidate carrying an id the list did
\* not hold, beside an existing item and another new one
C8_Witness ==
  /\ last.called /\ ~last.raised
  /\ Len(last.existing) >= 1
  /\ Len(last.created) = 2
  /\ \E j \in 1..Len(last.created) : Get(last.sources[j], IdKey) = ForeignId
  /\ Len(items) = Len(last.existing) + 2

\* C9: across a merge every item's history before is a prefix of its history
\* after, also when the candidate carries update_history; a new item's is empty.
C9_HistoryAppendOnly ==
  /\ \A i \in 1..Len(last.existing) :
       /\ items[i][HistoryKey][1] = "list"
       /\ IsPrefix(History(last.existing[i]), History(items[i]))
  /\ \A j \in 1..Len(last.created) : last.created[j][HistoryKey] = PyList(<<>>)

\* a merge in which a candidate carrying update_history changed an item that
\* already had a history
C9_Witness ==
  /\ last.called
  /\ \E j \in 1..Len(last.parsed_items) :
       LET c == last.parsed_items[j]
       IN /\ Matches(c) /\ Has(c, HistoryKey)
          /\ LET i == MapIndex(last.existing, Get(c, IdKey))
             IN /\ Len(History(last.existing[i])) >= 1
                /\ Len(History(items[i])) > Len(History(last.existing[i]))

\* the slice from the first ch1 to the last ch2, when both are found in order
HasSlice(s, open, close) ==
  Find(s, open) # 0 /\ RFind(s, close) # 0 /\ Find(s, open) < RFind(s, close)

SliceBetween(s, open, close) == Slice(s, Find(s, open), RFind(s, close))

\* the list the bracket slice decodes to, when it does; otherwise, the
\* bracket search or the decoding having failed, the one-element list of the
\* object the brace slice decodes to, when it does; otherwise null
TwoStageResult(s) ==
  IF HasSlice(s, "[", "]") /\ JsonLoads(SliceBetween(s, "[", "]")).ok
  THEN JsonLoads(SliceBetween(s, "[", "]")).val
  ELSE IF HasSlice(s, "{", "}") /\ JsonLoads(SliceBetween(s, "{", "}")).ok
  THEN PyList(<<JsonLoads(SliceBetween(s, "{", "}")).val>>)
  ELSE None

\* C10: the parser returns the list of the bracket slice when that decodes,
\* falls back to the brace slice when the bracket search or the decoding
\* fails, and returns null only when both stages fail.
C10_TwoStagePrecedence ==
  parsed.done => parsed.result = TwoStageResult(response)

\* ------------------------------------------------------------ runs of main
\* What the LLM may send back in a run: prose, blanks, an empty list, a list
\* of one or two objects, a lone object after prose, a list holding a list.
RunTexts ==
  { <<"x">>, <<" ">>, <<" ", "[", "]", " ">>,
    <<"[", "{", "m", "}", "]">>,
    <<"x", "{", "m", "}">>,
    <<"[", "{", "m", "}", ",", "{", "m", "}", "]">>,
    <<"[", "[", "]", "]">> }

\* what an object of the reply says: a new task (with and without the key
\* the creating branch prints), or a new status for the first item shown
RunBodies(all_action_items) ==
  { << Task(<<"Write report">>), TaskTab >>,
    << Task(<<"Write report">>) >> }
  \cup { << <<IdKey, all_action_items[i][IdKey]>>, Status("Completed") >> :
           i \in 1..Len(all_action_items) }

ObjectsIn(t) == Cardinality({i \in 1..Len(t) : t[i] = "{"})

\* what completion does: it raises, or returns a reply with or without content
Completions(all_action_items) ==
  { [ok |-> FALSE, content |-> <<>>, bodies |-> <<>>],
    [ok |-> TRUE, content |-> <<>>, bodies |-> <<>>] }
  \cup UNION { { [ok |-> TRUE, content |-> t, bodies |-> bs] :
                  bs \in [1..ObjectsIn(t) -> RunBodies(all_action_items)] } :
                t \in RunTexts }

InitRun ==
  /\ \E doc \in {Missing, NotAList} :
       store = [f \in Paths |-> IF f = get_project_file_path(Str(<<".">>)) THEN doc ELSE Missing]
  /\ pc = "idle"
  /\ run = [NoRun EXCEPT !.before = store]
  /\ items = <<>>
  /\ clock = 0
  /\ uuids = 0
  /\ last = NoCall
  /\ response = NoResponse
  /\ parsed = NotParsed

\* main, lines 37-52: the arguments, then load_action_items.  A read can
\* only fail on a file that exists; a run whose --input names a file ends in
\* get_input_text whatever its other arguments are, so one such run is drawn.
StartRun ==
  /\ pc \in {"idle", "finished", "aborted"}
  /\ \E project_id \in RunProjectIds, is_file \in BOOLEAN, meeting_notes \in {<<>>, <<"x">>},
        force_reparse \in BOOLEAN, should_summarize \in BOOLEAN, readable \in BOOLEAN :
       LET doc == store[get_project_file_path(project_id)]
       IN /\ doc.kind = "missing" => readable
          /\ is_file => (meeting_notes = <<>> /\ ~force_reparse /\ ~should_summarize)
          /\ items' = load_action_items(doc, readable)
          /\ run' = [project_id |-> project_id, is_file |-> is_file,
                     meeting_notes |-> meeting_notes, force_reparse |-> force_reparse,
                     should_summarize |-> should_summarize, before |-> store,
                     loaded |-> load_action_items(doc, readable), readable |-> readable,
                     bodies |-> <<>>, llm_calls |-> <<>>, saves |-> <<>>]
  /\ pc' = "input"
  /\ last' = NoCall
  /\ response' = NoResponse
  /\ parsed' = NotParsed
  /\ UNCHANGED <<clock, uuids, store>>

\* get_input_text and the test on its result.  For an existing file the
\* call open(input_source, 'r<tab>', ...) raises ValueError (invalid mode),
\* which the except IOError clause does not catch.
GetInputText ==
  /\ pc = "input"
  /\ pc' = IF run.is_file THEN "aborted"
           ELSE IF ShortCircuit(run.meeting_notes, run.force_reparse) THEN "summary"
           ELSE "llm"
  /\ UNCHANGED <<items, clock, uuids, last, response, parsed, store, run>>

\* lines 61-70: the identification prompt and the LLM call
CallLlm ==
  /\ pc = "llm"
  /\ \E completion \in Completions(items) :
       /\ clock + Len(completion.bodies) <= MaxRunClock
       /\ response' = generate_llm_response(completion)
       /\ run' = [run EXCEPT !.llm_calls = Append(@, "identify"),
                             !.bodies = completion.bodies]
       /\ pc' = IF HasContent(generate_llm_response(completion)) THEN "parse" ELSE "summary"
  /\ UNCHANGED <<items, clock, uuids, last, parsed, store>>

\* lines 72-74 and 88-90: parse_llm_json_response and the test on its result
ParseResponse ==
  /\ pc = "parse"
  /\ parsed' = [done |-> TRUE, result |-> parse_llm_json_response(response)]
  /\ pc' = AfterParse(parse_llm_json_response(response))
  /\ UNCHANGED <<items, clock, uuids, last, response, store, run>>

\* lines 76-80: process_parsed_items.  An element that is not an object has
\* no .get, and the creating branch may raise (PrintRaises): the exception
\* leaves main before the save.
MergeParsedItems ==
  /\ pc = "process"
  /\ IF ~ElementsAreObjects(parsed.result)
     THEN /\ pc' = "aborted"
          /\ UNCHANGED <<items, clock, uuids, last>>
     ELSE \E st \in {process_parsed_items(run.project_id,
                       CandidatesOf(parsed.result, run.bodies), items, clock, uuids)} :
            /\ items' = IF st.raised THEN st.existing ELSE FinalItemList(st)
            /\ clock' = st.clock
            /\ uuids' = st.uuids
            /\ last' = [project_id |-> run.project_id,
                        parsed_items |-> CandidatesOf(parsed.result, run.bodies),
                        existing |-> items, created |-> st.created, sources |-> st.sources,
                        calls |-> st.calls, raised |-> st.raised, called |-> TRUE]
            /\ pc' = IF st.raised THEN "aborted" ELSE "save"
  /\ UNCHANGED <<response, parsed, store, run>>

\* lines 83-87: save_action_items
SaveActionItems ==
  /\ pc = "save"
  /\ \E outcome \in SaveOutcomes :
       LET f == get_project_file_path(run.project_id)
           saved == save_action_items(store[f], items, outcome)
       IN /\ store' = [store EXCEPT ![f] = saved.doc]
          /\ run' = [run EXCEPT !.saves = Append(@, outcome)]
  /\ pc' = "summary"
  /\ UNCHANGED <<items, clock, uuids, last, response, parsed>>

\* lines 94-108: the optional summary, then the closing line
Summarize ==
  /\ pc = "summary"
  /\ run' = IF SummaryCalls(run.should_summarize, items)
            THEN [run EXCEPT !.llm_calls = Append(@, "summary")]
            ELSE run
  /\ pc' = "finished"
  /\ UNCHANGED <<items, clock, uuids, last, response, parsed, store>>

NextRun ==
  \/ StartRun
  \/ GetInputText
  \/ CallLlm
  \/ ParseResponse
  \/ MergeParsedItems
  \/ SaveActionItems
  \/ Summarize

SpecRun == InitRun /\ [][NextRun]_vars

\* the candidates of the last call that took the creating branch, in order
Creators ==
  LET Creates(c) == ~Matches(c) /\ Has(c, TaskKey)
  IN SelectSeq(last.parsed_items, Creates)

\* C11: an item created by process_parsed_items has the call's project_id, the
\* candidate's task, owner and deadline, the source 'LLM Extraction', an empty
\* history, created_at equal to updated_at, and the candidate's status when
\* that is valid, Open when it is absent or invalid.
C11_CreatedItemFields ==
  \A j \in 1..Len(last.created) :
    LET item == last.created[j]
        c == last.sources[j]
    IN /\ item[ProjectKey] = last.project_id
       /\ item[TaskKey] = Lookup(c, TaskKey)
       /\ item[OwnerKey] = Get(c, OwnerKey)
       /\ item[DeadlineKey] = Get(c, DeadlineKey)
       /\ item[SourceKey] = Str(<<"LLM Extraction">>)
       /\ item[HistoryKey] = PyList(<<>>)
       /\ item[CreatedKey] = item[UpdatedKey]
       /\ item[StatusKey] \in ValidStatuses
       /\ item[StatusKey] = IF Has(c, StatusKey) /\ Lookup(c, StatusKey) \in ValidStatuses
                            THEN Lookup(c, StatusKey)
                            ELSE Str(<<"Open">>)

\* a merge that created one item for a candidate with an invalid status and
\* one for a candidate with a valid status, an owner and a deadline
C11_Witness ==
  /\ last.called /\ ~last.raised
  /\ \E j \in 1..Len(last.created) :
       /\ Has(last.sources[j], StatusKey)
       /\ Lookup(last.sources[j], StatusKey) \notin ValidStatuses
       /\ items[Len(last.existing) + j][StatusKey] = Str(<<"Open">>)
  /\ \E j \in 1..Len(last.created) :
       /\ Has(last.sources[j], OwnerKey) /\ Has(last.sources[j], DeadlineKey)
       /\ items[Len(last.existing) + j][StatusKey] = Str(<<"Completed">>)

\* C12: the list a call returns is the existing list, each item at its index,
\* followed by the new items in the order of the candidates they come from.
C12_ExistingThenCreatedInOrder ==
  (last.called /\ ~last.raised) =>
    /\ Len(items) = Len(last.existing) + Len(Creators)
    /\ \A i \in 1..Len(last.existing) : items[i][IdKey] = last.existing[i][IdKey]
    /\ \A j \in 1..Len(Creators) :
         LET item == items[Len(last.existing) + j]
         IN /\ item[TaskKey] = Lookup(Creators[j], TaskKey)
            /\ item[OwnerKey] = Get(Creators[j], OwnerKey)
            /\ item[StatusKey] = NewStatus(Creators[j])
            /\ \A i \in 1..Len(last.existing) : item[IdKey] # last.existing[i][IdKey]

\* a merge over a list that already held items, creating two unlike items
C12_Witness ==
  /\ last.called /\ ~last.raised
  /\ Len(last.existing) >= 1
  /\ Len(items) = Len(last.existing) + 2
  /\ Len(Creators) = 2
  /\ Lookup(Creators[1], TaskKey) # Lookup(Creators[2], TaskKey)

\* ------------------------------------------------------ claims about runs
Asked(kind) == \E i \in 1..Len(run.llm_calls) : run.llm_calls[i] = kind

\* the identification call has returned without content
NoContent == Asked("identify") /\ ~HasContent(response)

\* the parser has run and returned null
NullParse == parsed.done /\ parsed.result = None

\* C13: in a run whose LLM call yields no content or whose parse is null,
\* save_action_items is not called, the persisted documents stay as they were
\* before the run, and the run goes on to the summary and finishes; the store
\* is written only after a parse that is not null.
C13_NoContentNoSave ==
  /\ (NoContent \/ NullParse) =>
       /\ run.saves = <<>>
       /\ store = run.before
       /\ pc \in {"summary", "finished"}
  /\ (run.saves # <<>> \/ store # run.before) => (parsed.done /\ parsed.result # None)

\* a run over a stored list whose reply was prose: the parse was null, the
\* summary was asked for and the run finished
C13_Witness ==
  /\ pc = "finished"
  /\ NullParse /\ response = <<"x">>
  /\ run.loaded # <<>>
  /\ Asked("summary")

\* the ids of the items a document holds
ItemIds(doc) == {doc.data[i][IdKey] : i \in 1..Len(doc.data)}

\* C14: no item is ever deleted: every item in a project's persisted document
\* before a run is still in it during and after the run, also when the load
\* fails or the document is malformed.
C14_NoItemDeleted ==
  \A f \in Paths : ItemIds(run.before[f]) \subseteq ItemIds(store[f])

\* a run whose --input is the empty text, without --force-reparse
EmptyInputRun ==
  /\ pc # "idle"
  /\ ~run.is_file
  /\ run.meeting_notes = <<>>
  /\ ~run.force_reparse

\* C15: in a run whose input text is empty and that has no --force-reparse,
\* no LLM call is made at any point of the run, whatever the other flags and
\* the store are, and the persisted document is not written.
C15_EmptyInputNoLlmCall ==
  EmptyInputRun =>
    /\ run.llm_calls = <<>>
    /\ run.saves = <<>>
    /\ store = run.before

\* C15 as amended: such a run makes no identification call and writes
\* nothing; it makes one LLM call, for the summary, exactly when --summarize
\* is given and the loaded list is not empty.
C15_EmptyInputNoIdentification ==
  EmptyInputRun =>
    /\ ~Asked("identify")
    /\ run.saves = <<>>
    /\ store = run.before
    /\ items = run.loaded
    /\ Len(run.llm_calls) <= 1
    /\ Asked("summary") => (run.should_summarize /\ run.loaded # <<>>)
    /\ (pc = "finished" /\ run.should_summarize /\ run.loaded # <<>>) => Asked("summary")

\* a finished run on empty input that asked the LLM for a summary
C15_Witness ==
  /\ EmptyInputRun
  /\ pc = "finished"
  /\ run.llm_calls = <<"summary">>
  /\ store = run.before

\* what load_action_items returns for a project when the read succeeds
LoadedFor(p) == load_action_items(store[get_project_file_path(p)], TRUE)

\* the name a project identifier is filed under: its safe characters, or the
\* fallback name when none is left
FiledUnder(p) ==
  IF SafeProjectId(p) = <<>> THEN <<"default_project">> ELSE SafeProjectId(p)

\* C16: after any sequence of runs, every item in the document that
\* load_action_items returns for project p carries project_id = p.
C16_ProjectIsolation ==
  \A p \in RunProjectIds :
    \A i \in 1..Len(LoadedFor(p)) : LoadedFor(p)[i][ProjectKey] = p

\* C16 as amended: every item loaded for p carries a project_id that is filed
\* under the same name as p; projects filed under different names never see
\* each other's items.
C16_IsolationBySanitizedName ==
  \A p \in RunProjectIds :
    \A i \in 1..Len(LoadedFor(p)) :
      FiledUnder(LoadedFor(p)[i][ProjectKey]) = FiledUnder(p)

\* a run for "a." has loaded an item that a run for "a" created, while the
\* document of "." holds an item of its own
C16_Witness ==
  /\ pc = "input"
  /\ run.project_id = Str(<<"a", ".">>)
  /\ run.loaded # <<>>
  /\ run.loaded[1][ProjectKey] = Str(<<"a">>)
  /\ LoadedFor(Str(<<".">>)) # <<>>

====
